---- MODULE Spec2Model ----
(***************************************************************************)
(* In-page editing session (EditorController) and cross-window            *)
(* authentication handshake (Auth) of the StreamlinedCMS client SDK.      *)
(*                                                                         *)
(* One step of the model is one task of the browser's event loop: a user *)
(* event handler, a timer callback, a message delivery or the settling of *)
(* a network promise, together with the microtasks it triggers.           *)
(***************************************************************************)
EXTENDS Integers, Sequences, FiniteSets, TLC

(* ---------------------------------------------------------------------- *)
(* Program constants                                                       *)
(* ---------------------------------------------------------------------- *)
KEY_EXPIRY_MS == 3600000
LOGIN_TIMEOUT == 300000
MEDIA_TIMEOUT == 600000

(* ---------------------------------------------------------------------- *)
(* Bounds of the model                                                     *)
(* ---------------------------------------------------------------------- *)
\* the clock advances by a step d while it stays within MaxClockSteps * d
MaxClockSteps == 1
\* calls (genuine or forged) posted to the parent during one handshake
MaxCalls == 1

\* calls posted to the parent during one media handshake
MaxMediaCalls == 2
\* handleSave() closures alive at once (the saving flag keeps it at one)
MaxInflight == 2

(* ---------------------------------------------------------------------- *)
(* Value domains                                                           *)
(* ---------------------------------------------------------------------- *)
Null == "null"
\* registry in document order (Map insertion order of editableElements)
ElemOrder == <<"A", "B">>
Elems == {ElemOrder[i] : i \in 1..Len(ElemOrder)}
\* innerHTML values; "c0" is the content the page was loaded with
Contents == {"c0", "c1"}
AppId == "app"
OtherAppId == "other"
MockKey == "mock-api-key"
\* the API key the login popup hands over
PopupKeys == {"k1"}
AppOrigin == "https://app"
EvilOrigin == "https://evil"
File == "file1"
\* an element id that no element of the page carries
UnknownId == "ghost"

(* ---------------------------------------------------------------------- *)
(* State                                                                   *)
(* ---------------------------------------------------------------------- *)
VARIABLES
    loader,  \* the loader script: its position, its content fetch, what it did to the page
    phase,   \* "loading" until the lazy module runs, "constructed" before init()
             \* has run, "ready" after
    config,  \* ViewerConfig: [mockAuth : BOOLEAN]
    ctl,     \* fields of the EditorController object
    dom,     \* the editable elements and the controller's listeners on the page
    ls,      \* localStorage: the items stored under STORAGE_KEY and MODE_STORAGE_KEY
    now,     \* Date.now()
    hs,      \* the popup handshake of openLoginPopup / openMediaManager
    save     \* the closure of the latest handleSave() call and its requests

vars == <<loader, phase, config, ctl, dom, ls, now, hs, save>>

(* ---------------------------------------------------------------------- *)
(* Auth: credential and mode preference in localStorage                    *)
(* ---------------------------------------------------------------------- *)
NoItem == [none |-> TRUE]

StoredAuth(key, appId, expiresAt) ==
    [key |-> key, appId |-> appId, expiresAt |-> expiresAt]

ClearStoredKey(l) == [l EXCEPT !.auth = NoItem]

\* the value getStoredKey() returns at time t
GetStoredKey(l, t) ==
    IF l.auth = NoItem THEN Null
    ELSE IF l.auth.appId # AppId THEN Null
    ELSE IF t > l.auth.expiresAt THEN Null
    ELSE l.auth.key

\* localStorage after getStoredKey() at time t (an expired record is removed)
GetStoredKeyStore(l, t) ==
    IF l.auth = NoItem THEN l
    ELSE IF l.auth.appId # AppId THEN l
    ELSE IF t > l.auth.expiresAt THEN ClearStoredKey(l)
    ELSE l

StoreKey(l, key, t) ==
    [l EXCEPT !.auth = StoredAuth(key, AppId, t + KEY_EXPIRY_MS)]

\* a refresh that is skipped
RefreshKeyExpiryNever(l, t) == l

\* a refresh that stores again whatever the read returned, a key or none
RefreshKeyExpiryUntested(l, t) ==
    StoreKey(GetStoredKeyStore(l, t), GetStoredKey(l, t), t)

RefreshKeyExpiry(l, t) ==
    IF GetStoredKey(l, t) # Null
    THEN StoreKey(GetStoredKeyStore(l, t), GetStoredKey(l, t), t)
    ELSE GetStoredKeyStore(l, t)

\* a preference read that does not compare the application id
GetStoredModeAnyApp(l) ==
    IF l.mode = NoItem THEN Null ELSE l.mode.mode

GetStoredMode(l) ==
    IF l.mode = NoItem THEN Null
    ELSE IF l.mode.appId # AppId THEN Null
    ELSE l.mode.mode

StoreMode(l, mode) == [l EXCEPT !.mode = [appId |-> AppId, mode |-> mode]]

(* ---------------------------------------------------------------------- *)
(* EditorController: synchronous methods, as functions of the world        *)
(* w = [ctl, dom, ls]                                                      *)
(* ---------------------------------------------------------------------- *)
NoToolbar == [none |-> TRUE]

\* htmlEditorModal = null
NoModal == [none |-> TRUE]

World == [ctl |-> ctl, dom |-> dom, ls |-> ls]

\* a stopEditing() that forgets the snapshot of the element it leaves
StopEditingForgetsSnapshot(w) ==
    IF w.ctl.editingElementId = Null THEN w
    ELSE [w EXCEPT !.dom.contenteditable[w.ctl.editingElementId] = "false",
                   !.ctl.originalContent[w.ctl.editingElementId] = Null,
                   !.ctl.editingElementId = Null,
                   !.ctl.toolbar = IF @ # NoToolbar
                                   THEN [@ EXCEPT !.activeElement = Null]
                                   ELSE @]

StopEditing(w) ==
    IF w.ctl.editingElementId = Null THEN w
    ELSE LET id == w.ctl.editingElementId
             w1 == IF id \in Elems
                   THEN [w EXCEPT !.dom.contenteditable[id] = "false"]
                   ELSE w
             w2 == [w1 EXCEPT !.ctl.editingElementId = Null]
         IN  IF w2.ctl.toolbar # NoToolbar
             THEN [w2 EXCEPT !.ctl.toolbar.activeElement = Null]
             ELSE w2

\* ids of the dirty elements, in the iteration order of editableElements
RECURSIVE DirtyFrom(_, _)
DirtyFrom(w, i) ==
    IF i > Len(ElemOrder) THEN << >>
    ELSE LET id == ElemOrder[i]
             original == w.ctl.originalContent[id]
             current == w.dom.content[id]
         IN  IF original # Null /\ current # original
             THEN <<[id |-> id, content |-> current]>> \o DirtyFrom(w, i + 1)
             ELSE DirtyFrom(w, i + 1)

\* a comparison that takes a missing snapshot for a difference
RECURSIVE DirtyWithoutSnapshotFrom(_, _)
DirtyWithoutSnapshotFrom(w, i) ==
    IF i > Len(ElemOrder) THEN << >>
    ELSE LET id == ElemOrder[i]
         IN  IF w.dom.content[id] # w.ctl.originalContent[id]
             THEN <<[id |-> id, content |-> w.dom.content[id]]>>
                      \o DirtyWithoutSnapshotFrom(w, i + 1)
             ELSE DirtyWithoutSnapshotFrom(w, i + 1)

DirtyWithoutSnapshot(w) == DirtyWithoutSnapshotFrom(w, 1)

GetDirtyElements(w) == DirtyFrom(w, 1)

UpdateToolbarHasChanges(w) ==
    IF w.ctl.toolbar # NoToolbar
    THEN [w EXCEPT !.ctl.toolbar.hasChanges = Len(GetDirtyElements(w)) > 0]
    ELSE w

ShowToolbar(w) ==
    IF w.ctl.toolbar # NoToolbar
    THEN [w EXCEPT !.ctl.toolbar.mode = w.ctl.currentMode,
                   !.ctl.toolbar.activeElement = w.ctl.editingElementId]
    ELSE [w EXCEPT !.ctl.toolbar =
             [mode |-> w.ctl.currentMode,
              activeElement |-> w.ctl.editingElementId,
              hasChanges |-> FALSE,
              saving |-> FALSE]]

RemoveToolbar(w) == [w EXCEPT !.ctl.toolbar = NoToolbar]

ShowSignInLink(w) == [RemoveToolbar(w) EXCEPT !.dom.signInLink = TRUE]

EnableAuthorMode(w) ==
    ShowToolbar([w EXCEPT !.dom.clickHandler = TRUE,
                          !.dom.documentClick = TRUE])

EnableViewerMode(w) ==
    LET w1 == [w EXCEPT !.dom.contenteditable = [e \in Elems |-> "absent"],
                        !.dom.documentClick = FALSE]
    IN  ShowToolbar(StopEditing(w1))

SetMode(w, mode) ==
    LET w1 == [w EXCEPT !.ctl.currentMode = mode,
                        !.ls = StoreMode(w.ls, mode)]
        w2 == IF mode = "author" THEN EnableAuthorMode(w1) ELSE EnableViewerMode(w1)
    IN  IF w2.ctl.toolbar # NoToolbar
        THEN [w2 EXCEPT !.ctl.toolbar.mode = mode]
        ELSE w2

SignOut(w) ==
    LET w1 == [w EXCEPT !.ls = ClearStoredKey(w.ls),
                        !.ctl.apiKey = Null,
                        !.dom.contenteditable = [e \in Elems |-> "absent"]]
    IN  ShowSignInLink(RemoveToolbar(StopEditing(w1)))

\* startEditing() that does not look the id up in the registry
StartEditingUnchecked(w, elementId) ==
    LET prev == w.ctl.editingElementId
        w1 == IF prev # Null /\ prev \in Elems
              THEN [w EXCEPT !.dom.contenteditable[prev] = "false"]
              ELSE w
        w2 == IF elementId \in Elems
              THEN [w1 EXCEPT !.ctl.originalContent[elementId] =
                                  IF @ = Null THEN w1.dom.content[elementId] ELSE @,
                              !.dom.inputHandler[elementId] = TRUE,
                              !.dom.contenteditable[elementId] = "true"]
              ELSE w1
    IN  [w2 EXCEPT !.ctl.editingElementId = elementId,
                   !.ctl.toolbar = IF @ # NoToolbar
                                   THEN [@ EXCEPT !.activeElement = elementId]
                                   ELSE @]

\* startEditing() that captures the snapshot on every entry
StartEditingRecaptures(w, elementId) ==
    IF elementId \notin Elems THEN w
    ELSE LET prev == w.ctl.editingElementId
             w1 == IF prev # Null /\ prev \in Elems
                   THEN [w EXCEPT !.dom.contenteditable[prev] = "false"]
                   ELSE w
         IN  [w1 EXCEPT !.ctl.originalContent[elementId] = w1.dom.content[elementId],
                        !.dom.inputHandler[elementId] = TRUE,
                        !.ctl.editingElementId = elementId,
                        !.dom.contenteditable[elementId] = "true",
                        !.ctl.toolbar = IF @ # NoToolbar
                                        THEN [@ EXCEPT !.activeElement = elementId]
                                        ELSE @]

\* startEditing() that forgets the element edited before
StartEditingKeepsPrevious(w, elementId) ==
    IF elementId \notin Elems THEN w
    ELSE [w EXCEPT !.ctl.originalContent[elementId] =
                       IF @ = Null THEN w.dom.content[elementId] ELSE @,
                   !.dom.inputHandler[elementId] = TRUE,
                   !.ctl.editingElementId = elementId,
                   !.dom.contenteditable[elementId] = "true",
                   !.ctl.toolbar = IF @ # NoToolbar
                                   THEN [@ EXCEPT !.activeElement = elementId]
                                   ELSE @]

StartEditing(w, elementId) ==
    IF elementId \notin Elems THEN w
    ELSE LET prev == w.ctl.editingElementId
             w1 == IF prev # Null /\ prev \in Elems
                   THEN [w EXCEPT !.dom.contenteditable[prev] = "false"]
                   ELSE w
             w2 == IF w1.ctl.originalContent[elementId] = Null
                   THEN [w1 EXCEPT !.ctl.originalContent[elementId] =
                                       w1.dom.content[elementId]]
                   ELSE w1
             w3 == [w2 EXCEPT !.dom.inputHandler[elementId] = TRUE,
                              !.ctl.editingElementId = elementId,
                              !.dom.contenteditable[elementId] = "true"]
         IN  IF w3.ctl.toolbar # NoToolbar
             THEN [w3 EXCEPT !.ctl.toolbar.activeElement = elementId]
             ELSE w3

\* a reset that also leaves the edit
HandleResetDeselects(w) ==
    IF w.ctl.editingElementId = Null THEN w
    ELSE LET elementId == w.ctl.editingElementId
         IN  IF elementId \in Elems /\ w.ctl.originalContent[elementId] # Null
             THEN StopEditing(UpdateToolbarHasChanges(
                      [w EXCEPT !.dom.content[elementId] =
                                    w.ctl.originalContent[elementId]]))
             ELSE w

HandleReset(w) ==
    IF w.ctl.editingElementId = Null THEN w
    ELSE LET elementId == w.ctl.editingElementId
         IN  IF elementId \in Elems /\ w.ctl.originalContent[elementId] # Null
             THEN UpdateToolbarHasChanges(
                      [w EXCEPT !.dom.content[elementId] =
                                    w.ctl.originalContent[elementId]])
             ELSE w

SetupAuthUI(w, t) ==
    LET storedKey == GetStoredKey(w.ls, t)
        w1 == [w EXCEPT !.ls = GetStoredKeyStore(w.ls, t)]
    IN  IF storedKey # Null
        THEN SetMode([w1 EXCEPT !.ctl.apiKey = storedKey],
                     IF GetStoredMode(w1.ls) = "author" THEN "author" ELSE "viewer")
        ELSE ShowSignInLink(w1)

InitController(w, cfg, t) ==
    IF cfg.mockAuth
    THEN SetMode([w EXCEPT !.ctl.apiKey = MockKey], "author")
    ELSE SetupAuthUI(w, t)

(* ---------------------------------------------------------------------- *)
(* Loader script: content fetch, population of the page, reveal            *)
(* ---------------------------------------------------------------------- *)
\* fetchContent() resolved with null
NoContent == [none |-> TRUE]

\* what the response holds for one element: nothing, a content string that is
\* not JSON, typed html content, or content of a type the loader does not know
ResponseEntries ==
    {[present |-> FALSE],
     [present |-> TRUE, json |-> FALSE],
     [present |-> TRUE, json |-> TRUE, type |-> "html", value |-> "c1"],
     [present |-> TRUE, json |-> TRUE, type |-> "video", value |-> "c1"]}

\* parsed bodies of a 2xx response: a ContentResponse, an object with elements
\* but without groups, an object without elements, or the JSON value null
ParsedBodies ==
    {[shape |-> sh, elements |-> f] :
         sh \in {"ok", "noGroups"}, f \in [Elems -> ResponseEntries]}
    \cup {[shape |-> "noElements"], [shape |-> "null"]}

\* responses of the content endpoint: a status with a body that parses or not,
\* or a rejected fetch()
Responses ==
    {[fault |-> TRUE]}
    \cup {[fault |-> FALSE, status |-> st, parses |-> FALSE] : st \in {200, 403, 404, 500}}
    \cup {[fault |-> FALSE, status |-> 200, parses |-> TRUE, body |-> b] : b \in ParsedBodies}

\* the value fetchContent() resolves with
FetchContent(response) ==
    IF response.fault THEN NoContent
    ELSE IF response.status # 200 THEN NoContent
    ELSE IF ~response.parses THEN NoContent
    ELSE IF response.body.shape = "null" THEN NoContent
    ELSE response.body

\* updateElement() on an element declared html
UpdateElement(current, entry) ==
    IF ~entry.present THEN current
    ELSE IF ~entry.json THEN current
    ELSE IF entry.type = "html" THEN entry.value
    ELSE current

\* populateContent(): the ungrouped elements first, then the groups; Object.entries
\* throws a TypeError on a missing elements or groups member
PopulateThrows(body) == body.shape # "ok"

PopulateContent(content, body) ==
    IF body.shape = "noElements" THEN content
    ELSE [e \in Elems |-> UpdateElement(content[e], body.elements[e])]

LoaderDone ==
    [pc |-> "done", fetch |-> "settled", result |-> NoContent,
     hidden |-> FALSE, module |-> TRUE]

(* ---------------------------------------------------------------------- *)
(* Initial state: a constructed controller on a freshly loaded page        *)
(* ---------------------------------------------------------------------- *)
\* what an earlier visit may have left in localStorage: nothing, the credential
\* of another application, or a credential of this one that expired, expires now
\* or expires LOGIN_TIMEOUT from now
InitialAuthItems ==
    {NoItem, StoredAuth("kx", OtherAppId, KEY_EXPIRY_MS)}
    \cup {StoredAuth(k, AppId, e) : k \in PopupKeys, e \in {0 - LOGIN_TIMEOUT, 0, LOGIN_TIMEOUT}}

InitialModeItems ==
    {NoItem, [appId |-> OtherAppId, mode |-> "author"]}
    \cup {[appId |-> AppId, mode |-> m] : m \in {"author", "viewer"}}

\* the returning author of the editing sessions: signed out, or holding a
\* credential that is still valid and having left the page in author mode
SessionStores ==
    {[auth |-> NoItem, mode |-> NoItem]}
    \cup {[auth |-> StoredAuth(k, AppId, e), mode |-> [appId |-> AppId, mode |-> "author"]] :
             k \in PopupKeys, e \in {0, LOGIN_TIMEOUT}}

NoHandshake ==
    [kind |-> "none", popup |-> "none", conn |-> "none", caller |-> "none",
     timer |-> FALSE, deadline |-> 0, poll |-> FALSE,
     outcome |-> "none", observed |-> TRUE,
     deferred |-> 0, cleanups |-> 0, calls |-> 0, inbox |-> << >>]

\* fields of a controller, the page and the clock before init() has run
Fresh ==
    /\ ctl = [apiKey |-> Null,
              currentMode |-> "viewer",
              originalContent |-> [e \in Elems |-> Null],
              editingElementId |-> Null,
              toolbar |-> NoToolbar,
              saving |-> FALSE,
              htmlEditorModal |-> NoModal]
    /\ dom = [content |-> [e \in Elems |-> "c0"],
              contenteditable |-> [e \in Elems |-> "absent"],
              inputHandler |-> [e \in Elems |-> FALSE],
              clickHandler |-> FALSE,
              documentClick |-> FALSE,
              signInLink |-> FALSE,
              htmlEditorModals |-> 0]
    /\ now = 0
    /\ hs = NoHandshake
    /\ save = << >>

\* the loader has revealed the page and its lazy module has constructed the
\* controller
Constructed ==
    /\ loader = LoaderDone
    /\ phase = "constructed"
    /\ Fresh

\* the loader script has run its synchronous part: the hiding style is in, the
\* content fetch is in flight, and initialize() awaits DOMContentLoaded if the
\* document is still loading
InitLoader ==
    /\ loader \in {[pc |-> p, fetch |-> "inflight", result |-> NoContent,
                     hidden |-> TRUE, module |-> FALSE] :
                        p \in {"awaitDom", "awaitContent"}}
    /\ phase = "loading"
    /\ Fresh
    /\ config \in [mockAuth : BOOLEAN]
    /\ ls \in [auth : InitialAuthItems, mode : InitialModeItems]

\* editing sessions: no mock authentication
Init ==
    /\ Constructed
    /\ config = [mockAuth |-> FALSE]
    /\ ls \in SessionStores

\* a returning author whose stored credential expires soon after the page
\* load, or was stored just before it
ExpiringStores ==
    {[auth |-> StoredAuth(k, AppId, e), mode |-> [appId |-> AppId, mode |-> "author"]] :
         k \in PopupKeys, e \in {1, KEY_EXPIRY_MS}}

InitExpiring ==
    /\ Constructed
    /\ config = [mockAuth |-> FALSE]
    /\ ls \in ExpiringStores

\* sign-in and credential store: every configuration and every stored item
InitAuth ==
    /\ Constructed
    /\ config \in [mockAuth : BOOLEAN]
    /\ ls \in [auth : InitialAuthItems, mode : InitialModeItems]

(* ---------------------------------------------------------------------- *)
(* Event loop                                                              *)
(* ---------------------------------------------------------------------- *)
\* a finished save whose report is on screen, or a settled handshake whose
\* awaiting caller has not run yet: the continuation runs before any other task
Settled(r) == r \in {"fulfilled", "rejected"}

\* a wait that ends with the first request that settles
AnySettled(cl) == \E i \in 1..Len(cl.entries) : Settled(cl.req[i])

AllSettled(cl) == \A i \in 1..Len(cl.entries) : Settled(cl.req[i])

\* a save whose requests have all settled, or a settled handshake whose awaiting
\* caller has not run yet: the continuation (a microtask) runs before any other task
\* a handshake that has an outcome and nothing left to tear down
Finished(h) ==
    /\ h.kind # "none"
    /\ h.outcome # "pending"
    /\ ~h.poll /\ ~h.timer /\ h.deferred = 0

ContinuationPending ==
    \/ \E k \in 1..Len(save) : save[k].status = "done" \/ AllSettled(save[k])
    \/ ~hs.observed
    \/ Finished(hs)

Ready == phase = "ready" /\ ~ContinuationPending

Commit(w) == ctl' = w.ctl /\ dom' = w.dom /\ ls' = w.ls

\* the content fetch of the loader settles
LoaderFetchSettles(response) ==
    /\ loader.fetch = "inflight"
    /\ loader' = [loader EXCEPT !.fetch = "settled", !.result = FetchContent(response)]
    /\ UNCHANGED <<phase, config, ctl, dom, ls, now, hs, save>>

\* DOMContentLoaded: initialize() resumes and scans the page
DomContentLoaded ==
    /\ loader.pc = "awaitDom"
    /\ loader' = [loader EXCEPT !.pc = "awaitContent"]
    /\ UNCHANGED <<phase, config, ctl, dom, ls, now, hs, save>>

\* initialize() after the await of the content: populate, reveal, inject
LoaderFinish(l, content) ==
    IF l.result # NoContent /\ Cardinality(Elems) > 0
    THEN IF PopulateThrows(l.result)
         THEN [loader |-> [l EXCEPT !.pc = "failed"],
               content |-> PopulateContent(content, l.result)]
         ELSE [loader |-> [l EXCEPT !.pc = "done", !.hidden = FALSE, !.module = TRUE],
               content |-> PopulateContent(content, l.result)]
    ELSE [loader |-> [l EXCEPT !.pc = "done", !.hidden = FALSE, !.module = TRUE],
          content |-> content]

LoaderResumes ==
    /\ loader.pc = "awaitContent"
    /\ loader.fetch = "settled"
    /\ loader' = LoaderFinish(loader, dom.content).loader
    /\ dom' = [dom EXCEPT !.content = LoaderFinish(loader, dom.content).content]
    /\ UNCHANGED <<phase, config, ctl, ls, now, hs, save>>

\* the injected module script runs: new EditorController(config)
ModuleLoads ==
    /\ phase = "loading"
    /\ loader.module
    /\ phase' = "constructed"
    /\ UNCHANGED <<loader, config, ctl, dom, ls, now, hs, save>>

\* initLazy(): controller.init()
InitLazy ==
    /\ phase = "constructed"
    /\ phase' = "ready"
    /\ Commit(InitController(World, config, now))
    /\ UNCHANGED <<loader, config, now, hs, save>>

(* ---------------------------------------------------------------------- *)
(* User events on the page                                                 *)
(* ---------------------------------------------------------------------- *)
\* an element listener that starts an edit in every mode
HandleElementClickAnyMode(w, id) == StartEditing(w, id)

\* the click listener enableAuthorMode() installs on every registered element
HandleElementClick(w, id) ==
    IF w.ctl.currentMode = "author" THEN StartEditing(w, id) ELSE w

\* click on a registered element
ClickElement(id) ==
    /\ Ready
    /\ dom.clickHandler
    /\ Commit(HandleElementClick(World, id))
    /\ UNCHANGED <<loader, phase, config, now, hs, save>>

\* where a click on the document can land: inside a registered element, inside
\* the toolbar, or anywhere else
ClickTargets == Elems \cup {"toolbar", "outside"}

\* a document listener that deselects wherever the click lands
HandleDocumentClickAnywhere(w, target) == StopEditing(w)

\* the click listener enableAuthorMode() installs on the document
HandleDocumentClick(w, target) ==
    IF w.ctl.editingElementId = Null THEN w
    ELSE IF target \in Elems THEN w
    ELSE IF target = "toolbar" /\ w.ctl.toolbar # NoToolbar THEN w
    ELSE StopEditing(w)

\* click outside every registered element and outside the toolbar
ClickOutside ==
    /\ Ready
    /\ dom.documentClick
    /\ ctl.editingElementId # Null
    /\ Commit(HandleDocumentClick(World, "outside"))
    /\ UNCHANGED <<loader, phase, config, now, hs, save>>

\* click inside the toolbar, on none of its controls: it bubbles to the document
ClickToolbar ==
    /\ Ready
    /\ dom.documentClick
    /\ ctl.toolbar # NoToolbar
    /\ Commit(HandleDocumentClick(World, "toolbar"))
    /\ UNCHANGED <<loader, phase, config, now, hs, save>>

\* the user types in the element that is contenteditable: an input event
TypeInElement(id, c) ==
    /\ Ready
    /\ dom.contenteditable[id] = "true"
    /\ c # dom.content[id]
    /\ LET w1 == [World EXCEPT !.dom.content[id] = c]
       IN  Commit(IF dom.inputHandler[id] THEN UpdateToolbarHasChanges(w1) ELSE w1)
    /\ UNCHANGED <<loader, phase, config, now, hs, save>>

(* ---------------------------------------------------------------------- *)
(* Events of the toolbar                                                   *)
(* ---------------------------------------------------------------------- *)
ToolbarModeChange(mode) ==
    /\ Ready
    /\ ctl.toolbar # NoToolbar
    /\ mode # ctl.toolbar.mode
    /\ Commit(SetMode(World, mode))
    /\ UNCHANGED <<loader, phase, config, now, hs, save>>

ToolbarReset ==
    /\ Ready
    /\ ctl.toolbar # NoToolbar
    /\ Commit(HandleReset(World))
    /\ UNCHANGED <<loader, phase, config, now, hs, save>>

ToolbarSignOut ==
    /\ Ready
    /\ ctl.toolbar # NoToolbar
    /\ Commit(SignOut(World))
    /\ UNCHANGED <<loader, phase, config, now, hs, save>>

(* ---------------------------------------------------------------------- *)
(* HTML editor modal: handleEditHtml() and closeHtmlEditor()               *)
(* ---------------------------------------------------------------------- *)
\* handleEditHtml(): the modal is created for the element that is being edited;
\* its apply listener closes over that element
HandleEditHtml(w) ==
    IF w.ctl.editingElementId = Null THEN w
    ELSE IF w.ctl.htmlEditorModal # NoModal THEN w
    ELSE IF w.ctl.editingElementId \notin Elems THEN w
    ELSE [w EXCEPT !.ctl.htmlEditorModal =
                       [elementId |-> w.ctl.editingElementId,
                        element |-> w.ctl.editingElementId,
                        content |-> w.dom.content[w.ctl.editingElementId]],
                   !.dom.htmlEditorModals = @ + 1]

CloseHtmlEditor(w) ==
    IF w.ctl.htmlEditorModal # NoModal
    THEN [w EXCEPT !.ctl.htmlEditorModal = NoModal,
                   !.dom.htmlEditorModals = @ - 1]
    ELSE w

\* the apply listener of the modal: it writes the element of its closure
ApplyHtml(w, content) ==
    UpdateToolbarHasChanges(CloseHtmlEditor(
        [w EXCEPT !.dom.content[w.ctl.htmlEditorModal.element] = content]))

\* the toolbar's edit-html event; the button is rendered while an element is active
ToolbarEditHtml ==
    /\ Ready
    /\ ctl.toolbar # NoToolbar
    /\ ctl.toolbar.activeElement # Null
    /\ Commit(HandleEditHtml(World))
    /\ UNCHANGED <<loader, phase, config, now, hs, save>>

\* the modal raises apply with the content of its editor
ModalApply(content) ==
    /\ Ready
    /\ ctl.htmlEditorModal # NoModal
    /\ Commit(ApplyHtml(World, content))
    /\ UNCHANGED <<loader, phase, config, now, hs, save>>

\* the modal raises cancel
ModalCancel ==
    /\ Ready
    /\ ctl.htmlEditorModal # NoModal
    /\ Commit(CloseHtmlEditor(World))
    /\ UNCHANGED <<loader, phase, config, now, hs, save>>

(* ---------------------------------------------------------------------- *)
(* Another application on the same origin                                  *)
(* ---------------------------------------------------------------------- *)
\* storeKey() and storeMode() of an Auth whose config.appId is appId: the item
\* is written under the one key STORAGE_KEY, or MODE_STORAGE_KEY
StoreKeyOf(appId, l, key, t) ==
    [l EXCEPT !.auth = StoredAuth(key, appId, t + KEY_EXPIRY_MS)]

StoreModeOf(appId, l, mode) ==
    [l EXCEPT !.mode = [appId |-> appId, mode |-> mode]]

\* a page of the same origin that runs the SDK for OtherAppId completes a sign-in
OtherAppStoresKey(key) ==
    /\ phase = "ready"
    /\ ls' = StoreKeyOf(OtherAppId, ls, key, now)
    /\ ls' # ls
    /\ UNCHANGED <<loader, phase, config, ctl, dom, now, hs, save>>

\* a page of the same origin that runs the SDK for OtherAppId changes its mode
OtherAppStoresMode(mode) ==
    /\ phase = "ready"
    /\ ls' = StoreModeOf(OtherAppId, ls, mode)
    /\ ls' # ls
    /\ UNCHANGED <<loader, phase, config, ctl, dom, now, hs, save>>

(* ---------------------------------------------------------------------- *)
(* Batched save: handleSave()                                              *)
(* ---------------------------------------------------------------------- *)
\* how a request ends: a 2xx response whose body is the element record, another
\* status, or a rejected fetch() (transport fault)
FetchResults == {"ok", "status", "fault"}

\* an early return that does not look at the saving flag
SaveBlockedOnlyWhenClean(w, dirty) == Len(dirty) = 0

\* the early return of handleSave()
SaveBlocked(w, dirty) == Len(dirty) = 0 \/ w.ctl.saving

\* the message of the Error a request rejects with
StatusMessage(elementId) == <<elementId, ": ", "500 Internal Server Error">>
FaultMessage == <<"Failed to fetch">>

\* config.apiUrl
ApiUrl == "https://api"

\* a request whose body is the snapshot of the element
PutRequestOfSnapshot(w, entry) ==
    [method |-> "PUT",
     url |-> <<ApiUrl, "/apps/", AppId, "/content/", entry.id>>,
     body |-> [content |-> w.ctl.originalContent[entry.id]]]

\* the arguments of fetch() for one dirty element
PutRequest(w, entry) ==
    [method |-> "PUT",
     url |-> <<ApiUrl, "/apps/", AppId, "/content/", entry.id>>,
     body |-> [content |-> entry.content]]

NewClosure(w, dirty) ==
    [status |-> "inflight",
     entries |-> dirty,
     bearer |-> w.ctl.apiKey,
     sent |-> [i \in 1..Len(dirty) |-> PutRequest(w, dirty[i])],
     req |-> [i \in 1..Len(dirty) |-> "fetching"],
     reason |-> [i \in 1..Len(dirty) |-> << >>],
     saved |-> << >>,
     errors |-> << >>,
     before |-> w.ctl.originalContent]

\* the toolbar's save event: the synchronous part of handleSave(), up to the
\* await of Promise.allSettled; every fetch() has been called when it returns
ToolbarSave ==
    /\ Ready
    /\ ctl.toolbar # NoToolbar
    /\ Len(save) < MaxInflight
    /\ LET dirty == GetDirtyElements(World)
       IN  IF SaveBlocked(World, dirty)
           THEN UNCHANGED <<ctl, save>>
           ELSE /\ ctl' = [ctl EXCEPT !.saving = TRUE, !.toolbar.saving = TRUE]
                /\ save' = Append(save, NewClosure(World, dirty))
    /\ UNCHANGED <<loader, phase, config, dom, ls, now, hs>>

\* a snapshot update that is lost
RecordSavedNowhere(c, elementId, content) == c

\* a snapshot update that takes the element's content of the moment
RecordSavedLive(c, elementId, content) ==
    [c EXCEPT !.originalContent[elementId] = dom.content[elementId]]

\* the snapshot update of a request that succeeded
RecordSaved(c, elementId, content) ==
    [c EXCEPT !.originalContent[elementId] = content]

\* request i of closure k settles; the body of a 2xx response (response.json())
\* is read in the same step
FetchSettles(k, i, r) ==
    /\ Ready
    /\ k \in 1..Len(save) /\ i \in 1..Len(save[k].entries)
    /\ save[k].req[i] = "fetching"
    /\ IF r = "ok"
       THEN /\ ctl' = RecordSaved(ctl, save[k].entries[i].id, save[k].entries[i].content)
            /\ save' = [save EXCEPT ![k].req[i] = "fulfilled",
                                    ![k].saved = Append(@, save[k].entries[i].id)]
       ELSE /\ ctl' = ctl
            /\ save' = [save EXCEPT ![k].req[i] = "rejected",
                                    ![k].reason[i] =
                                        IF r = "status"
                                        THEN StatusMessage(save[k].entries[i].id)
                                        ELSE FaultMessage]
    /\ UNCHANGED <<loader, phase, config, dom, ls, now, hs>>

\* results.forEach: the messages of the rejected requests, in request order
RECURSIVE ErrorsFrom(_, _)
ErrorsFrom(cl, i) ==
    IF i > Len(cl.entries) THEN << >>
    ELSE IF cl.req[i] = "rejected"
         THEN <<cl.reason[i]>> \o ErrorsFrom(cl, i + 1)
         ELSE ErrorsFrom(cl, i + 1)

\* a report that stops at the first failure
CollectFirstError(cl) ==
    IF Len(ErrorsFrom(cl, 1)) > 0 THEN <<Head(ErrorsFrom(cl, 1))>> ELSE << >>

CollectErrors(cl) == ErrorsFrom(cl, 1)

\* a release that happens only when nothing failed
ReleaseSavingNever(w) == w

ReleaseSaving(w) ==
    LET w1 == [w EXCEPT !.ctl.saving = FALSE]
    IN  IF w1.ctl.toolbar # NoToolbar
        THEN [w1 EXCEPT !.ctl.toolbar.saving = FALSE]
        ELSE w1

\* a completion that deselects whatever the report says
FinishSaveAlwaysDeselects(w, errors, t) ==
    ReleaseSaving(UpdateToolbarHasChanges(
        StopEditing([w EXCEPT !.ls = RefreshKeyExpiry(w.ls, t)])))

\* the part of handleSave() after the await of Promise.allSettled
FinishSave(w, errors, t) ==
    LET w1 == [w EXCEPT !.ls = RefreshKeyExpiry(w.ls, t)]
        w2 == IF Len(errors) > 0 THEN w1 ELSE StopEditing(w1)
    IN  ReleaseSaving(UpdateToolbarHasChanges(w2))

SaveSettles(k) ==
    /\ phase = "ready"
    /\ k \in 1..Len(save)
    /\ save[k].status = "inflight"
    /\ AllSettled(save[k])
    /\ Commit(FinishSave(World, CollectErrors(save[k]), now))
    /\ save' = [save EXCEPT ![k].status = "done",
                            ![k].errors = CollectErrors(save[k])]
    /\ UNCHANGED <<loader, phase, config, now, hs>>

\* handleSave() has returned: its closure is dropped
SaveReturns ==
    /\ \E k \in 1..Len(save) : save[k].status = "done"
    /\ save' = SelectSeq(save, LAMBDA cl : cl.status # "done")
    /\ UNCHANGED <<loader, phase, config, ctl, dom, ls, now, hs>>

(* ---------------------------------------------------------------------- *)
(* Popup handshake: openLoginPopup() and openMediaManager()                *)
(* ---------------------------------------------------------------------- *)
Cancelled == "cancelled"

\* the timeout option passed to connect()
ConnectTimeout(kind) == IF kind = "login" THEN LOGIN_TIMEOUT ELSE MEDIA_TIMEOUT

\* the methods the parent exposes to the popup
Methods(kind) ==
    IF kind = "login" THEN {"receiveAuthResult"}
    ELSE {"receiveMediaSelection", "receiveMediaCancel"}

\* a messenger that listens to every origin
OriginAllowedAny(origin) == TRUE

\* allowedOrigins of the WindowMessenger
OriginAllowed(origin) == origin = AppOrigin

\* a promise that every resolve() call settles again
ResolveAgain(h, v) == [h EXCEPT !.outcome = v, !.observed = FALSE]

\* resolve(v) of the promise: only the first call settles it
Resolve(h, v) ==
    IF h.outcome = "pending"
    THEN [h EXCEPT !.outcome = v, !.observed = FALSE]
    ELSE h

\* cleanup(): clearInterval(checkClosed); connection.destroy()
Cleanup(h) ==
    [h EXCEPT !.poll = FALSE,
              !.conn = "destroyed",
              !.timer = FALSE,
              !.cleanups = @ + 1]

\* window.open() returned null: resolve(null) and nothing else
PopupBlocked(kind, caller) ==
    [NoHandshake EXCEPT !.kind = kind, !.caller = caller,
                        !.outcome = Cancelled, !.observed = FALSE]

\* window.open() returned the popup: messenger, connect() and setInterval()
PopupOpened(kind, caller, t) ==
    [NoHandshake EXCEPT !.kind = kind, !.caller = caller,
                        !.popup = "open", !.conn = "connecting",
                        !.timer = TRUE, !.deadline = t + ConnectTimeout(kind),
                        !.poll = TRUE, !.outcome = "pending"]

\* the default sign-in link is clicked: handleSignIn() up to its await
ClickSignIn(blocked) ==
    /\ Ready
    /\ dom.signInLink
    /\ hs.kind = "none"
    /\ hs' = IF blocked THEN PopupBlocked("login", "handleSignIn")
             ELSE PopupOpened("login", "handleSignIn", now)
    /\ UNCHANGED <<loader, phase, config, ctl, dom, ls, now, save>>

\* a script of the page calls auth.openMediaManager()
OpenMediaManager(blocked) ==
    /\ Ready
    /\ hs.kind = "none"
    /\ hs' = IF blocked THEN PopupBlocked("media", "page")
             ELSE PopupOpened("media", "page", now)
    /\ UNCHANGED <<loader, phase, config, ctl, dom, ls, now, save>>

\* the popup's side of the channel answers: the connection is established
\* and connect() clears its timeout
PopupConnects ==
    /\ Ready
    /\ hs.popup = "open"
    /\ hs.conn = "connecting"
    /\ hs' = [hs EXCEPT !.conn = "connected", !.timer = FALSE]
    /\ UNCHANGED <<loader, phase, config, ctl, dom, ls, now, save>>

\* the timeout of connect() fires: the connection is destroyed and its promise,
\* which nothing awaits, rejects; the poll and the handshake's promise are untouched
ConnectionTimesOut ==
    /\ Ready
    /\ hs.timer
    /\ now >= hs.deadline
    /\ hs' = [hs EXCEPT !.conn = "destroyed", !.timer = FALSE]
    /\ UNCHANGED <<loader, phase, config, ctl, dom, ls, now, save>>

\* the popup calls a method of the parent
PopupCalls(method, arg) ==
    /\ Ready
    /\ hs.popup = "open"
    /\ hs.conn = "connected"
    /\ hs.calls < (IF hs.kind = "login" THEN MaxCalls ELSE MaxMediaCalls)
    /\ method \in Methods(hs.kind)
    /\ hs' = [hs EXCEPT !.calls = @ + 1,
                        !.inbox = Append(@, [method |-> method, arg |-> arg,
                                             origin |-> AppOrigin])]
    /\ UNCHANGED <<loader, phase, config, ctl, dom, ls, now, save>>

\* a window of another origin posts a call to the parent
ForgedCall(method, arg) ==
    /\ Ready
    /\ hs.conn \in {"connecting", "connected"}
    /\ hs.calls < (IF hs.kind = "login" THEN MaxCalls ELSE MaxMediaCalls)
    /\ method \in Methods(hs.kind)
    /\ hs' = [hs EXCEPT !.calls = @ + 1,
                        !.inbox = Append(@, [method |-> method, arg |-> arg,
                                             origin |-> EvilOrigin])]
    /\ UNCHANGED <<loader, phase, config, ctl, dom, ls, now, save>>

\* the user (or the popup itself) closes the popup
PopupCloses ==
    /\ Ready
    /\ hs.popup = "open"
    /\ hs' = [hs EXCEPT !.popup = "closed"]
    /\ UNCHANGED <<loader, phase, config, ctl, dom, ls, now, save>>

\* a result method that resolves before the key is stored
ReceiveAuthResultUnstored(h, w, key, t) ==
    [hs |-> Resolve(Cleanup(h), key),
     ls |-> w.ls]

\* the method bodies of connect({methods})
ReceiveAuthResult(h, w, key, t) ==
    [hs |-> Resolve(Cleanup(h), key),
     ls |-> StoreKey(w.ls, key, t)]

ReceiveMediaSelection(h, file) ==
    [Resolve(h, file) EXCEPT !.deferred = @ + 1]

ReceiveMediaCancel(h) ==
    [Resolve(h, Cancelled) EXCEPT !.deferred = @ + 1]

\* the channel hands a message to a method only on a live connection and only
\* from an allowed origin
Accepts(h, m) ==
    /\ h.conn = "connected"
    /\ OriginAllowed(m.origin)
    /\ m.method \in Methods(h.kind)

\* the message event of the oldest posted call
Deliver ==
    /\ Ready
    /\ Len(hs.inbox) > 0
    /\ LET m == Head(hs.inbox)
           h == [hs EXCEPT !.inbox = Tail(@)]
       IN  IF ~Accepts(hs, m)
           THEN hs' = h /\ ls' = ls
           ELSE IF m.method = "receiveAuthResult"
           THEN /\ hs' = ReceiveAuthResult(h, World, m.arg, now).hs
                /\ ls' = ReceiveAuthResult(h, World, m.arg, now).ls
           ELSE IF m.method = "receiveMediaSelection"
           THEN hs' = ReceiveMediaSelection(h, m.arg) /\ ls' = ls
           ELSE hs' = ReceiveMediaCancel(h) /\ ls' = ls
    /\ UNCHANGED <<loader, phase, config, ctl, dom, now, save>>

\* setTimeout(cleanup, 0) of the media methods fires
DeferredCleanup ==
    /\ Ready
    /\ hs.deferred > 0
    /\ hs' = Cleanup([hs EXCEPT !.deferred = @ - 1])
    /\ UNCHANGED <<loader, phase, config, ctl, dom, ls, now, save>>

\* a poll that tears down without resolving
CheckClosedSilently(h) ==
    IF h.popup = "closed" THEN Cleanup(h) ELSE h

\* the callback of setInterval(..., POPUP_CHECK_INTERVAL)
CheckClosed(h) ==
    IF h.popup = "closed" THEN Resolve(Cleanup(h), Cancelled) ELSE h

PollTick ==
    /\ Ready
    /\ hs.poll
    /\ hs' = CheckClosed(hs)
    /\ UNCHANGED <<loader, phase, config, ctl, dom, ls, now, save>>

\* a continuation that does not test the key
SignInResultUntested(w, key) ==
    SetMode([w EXCEPT !.ctl.apiKey = key, !.dom.signInLink = FALSE], "author")

\* handleSignIn() after its await
SignInResult(w, key) ==
    IF key # Cancelled
    THEN SetMode([w EXCEPT !.ctl.apiKey = key, !.dom.signInLink = FALSE], "author")
    ELSE w

\* the caller awaiting the handshake's promise runs
CallerResumes ==
    /\ phase = "ready"
    /\ ~hs.observed
    /\ hs' = [hs EXCEPT !.observed = TRUE]
    /\ Commit(IF hs.caller = "handleSignIn" THEN SignInResult(World, hs.outcome)
              ELSE World)
    /\ UNCHANGED <<loader, phase, config, now, save>>

\* nothing refers to the finished handshake any more
HandshakeEnds ==
    /\ hs.observed
    /\ Finished(hs)
    /\ hs' = NoHandshake
    /\ UNCHANGED <<loader, phase, config, ctl, dom, ls, now, save>>

(* ---------------------------------------------------------------------- *)
(* Time                                                                    *)
(* ---------------------------------------------------------------------- *)
\* the clock advances by d, but not past the deadline of an armed timer
Advance(d) ==
    /\ Ready
    /\ now + d <= MaxClockSteps * d
    /\ ~(hs.timer /\ now + d > hs.deadline)
    /\ now' = now + d
    /\ UNCHANGED <<loader, phase, config, ctl, dom, ls, hs, save>>

Tick == Advance(LOGIN_TIMEOUT)

LongTick == Advance(MEDIA_TIMEOUT)

(* ---------------------------------------------------------------------- *)
(* Specifications                                                          *)
(* ---------------------------------------------------------------------- *)
\* the editing session: page and toolbar events, batched saves, sign-out and
\* sign-in through the login popup
Next ==
    \/ InitLazy
    \/ \E id \in Elems : ClickElement(id)
    \/ ClickOutside
    \/ ClickToolbar
    \/ \E id \in Elems, c \in Contents : TypeInElement(id, c)
    \/ \E m \in {"author", "viewer"} : ToolbarModeChange(m)
    \/ ToolbarReset
    \/ ToolbarSignOut
    \/ ToolbarSave
    \/ \E k \in 1..MaxInflight, i \in 1..Len(ElemOrder), r \in FetchResults :
           FetchSettles(k, i, r)
    \/ \E k \in 1..MaxInflight : SaveSettles(k)
    \/ SaveReturns
    \/ \E b \in BOOLEAN : ClickSignIn(b)
    \/ PopupConnects
    \/ ConnectionTimesOut
    \/ \E k \in PopupKeys : PopupCalls("receiveAuthResult", k)
    \/ PopupCloses
    \/ Deliver
    \/ PollTick
    \/ CallerResumes
    \/ HandshakeEnds
    \/ Tick

Spec == Init /\ [][Next]_vars

\* the editing session of an author who stays signed in or signs out, with the
\* fairness of the event loop: every request settles and due continuations run
NextSave ==
    \/ InitLazy
    \/ \E id \in Elems : ClickElement(id)
    \/ ClickOutside
    \/ ClickToolbar
    \/ \E id \in Elems, c \in Contents : TypeInElement(id, c)
    \/ \E m \in {"author", "viewer"} : ToolbarModeChange(m)
    \/ ToolbarReset
    \/ ToolbarSignOut
    \/ ToolbarSave
    \/ \E k \in 1..MaxInflight, i \in 1..Len(ElemOrder), r \in FetchResults :
           FetchSettles(k, i, r)
    \/ \E k \in 1..MaxInflight : SaveSettles(k)
    \/ SaveReturns
    \/ Tick

FairnessSave ==
    /\ WF_vars(\E k \in 1..MaxInflight, i \in 1..Len(ElemOrder), r \in FetchResults :
                   FetchSettles(k, i, r))
    /\ WF_vars(\E k \in 1..MaxInflight : SaveSettles(k))
    /\ WF_vars(SaveReturns)

SpecSave == Init /\ [][NextSave]_vars /\ FairnessSave

\* the editing session of an author whose stored credential may expire during it
SpecExpiry == InitExpiring /\ [][NextSave]_vars

\* the popup handshakes and the credential store, on a page whose elements
\* are not edited
PopupCall ==
    \/ \E k \in PopupKeys : PopupCalls("receiveAuthResult", k)
    \/ PopupCalls("receiveMediaSelection", File)
    \/ PopupCalls("receiveMediaCancel", Null)

Forgery ==
    \/ \E k \in PopupKeys : ForgedCall("receiveAuthResult", k)
    \/ ForgedCall("receiveMediaSelection", File)
    \/ ForgedCall("receiveMediaCancel", Null)

NextAuth ==
    \/ InitLazy
    \/ \E m \in {"author", "viewer"} : ToolbarModeChange(m)
    \/ ToolbarSignOut
    \/ \E b \in BOOLEAN : ClickSignIn(b)
    \/ \E b \in BOOLEAN : OpenMediaManager(b)
    \/ PopupConnects
    \/ ConnectionTimesOut
    \/ PopupCall
    \/ Forgery
    \/ PopupCloses
    \/ Deliver
    \/ DeferredCleanup
    \/ PollTick
    \/ CallerResumes
    \/ HandshakeEnds
    \/ Tick
    \/ LongTick

\* timers that are due fire, posted messages are delivered and continuations run
FairnessAuth ==
    /\ WF_vars(ConnectionTimesOut)
    /\ WF_vars(Deliver)
    /\ WF_vars(DeferredCleanup)
    /\ WF_vars(PollTick)
    /\ WF_vars(CallerResumes)
    /\ WF_vars(HandshakeEnds)

SpecAuth == InitAuth /\ [][NextAuth]_vars /\ FairnessAuth

\* the editing session with the HTML editor modal. The modal covers the page
\* while it is open: no click or key reaches the page's elements, the toolbar
\* stays operable, and requests in flight settle.
PageEvent ==
    /\ ctl.htmlEditorModal = NoModal
    /\ \/ \E id \in Elems : ClickElement(id)
       \/ ClickOutside
       \/ \E id \in Elems, c \in Contents : TypeInElement(id, c)

NextModal ==
    \/ InitLazy
    \/ PageEvent
    \/ \E m \in {"author", "viewer"} : ToolbarModeChange(m)
    \/ ToolbarSignOut
    \/ ToolbarSave
    \/ ToolbarEditHtml
    \/ \E c \in Contents : ModalApply(c)
    \/ ModalCancel
    \/ \E k \in 1..MaxInflight, i \in 1..Len(ElemOrder), r \in FetchResults :
           FetchSettles(k, i, r)
    \/ \E k \in 1..MaxInflight : SaveSettles(k)
    \/ SaveReturns

SpecModal == Init /\ [][NextModal]_vars

\* the credential store shared by the pages of one origin: this application's
\* init(), mode changes and sign-out, and the writes of another application
NextStore ==
    \/ InitLazy
    \/ \E m \in {"author", "viewer"} : ToolbarModeChange(m)
    \/ ToolbarSignOut
    \/ OtherAppStoresKey("kx")
    \/ \E m \in {"author", "viewer"} : OtherAppStoresMode(m)
    \/ Tick

SpecStore == InitAuth /\ [][NextStore]_vars

\* the page load: the loader script, then the lazy module and its init()
NextLoader ==
    \/ \E r \in Responses : LoaderFetchSettles(r)
    \/ DomContentLoaded
    \/ LoaderResumes
    \/ ModuleLoads
    \/ InitLazy

\* the fetch has an outcome, the document finishes loading, scripts run
FairnessLoader ==
    /\ WF_vars(\E r \in Responses : LoaderFetchSettles(r))
    /\ WF_vars(DomContentLoaded)
    /\ WF_vars(LoaderResumes)
    /\ WF_vars(ModuleLoads)
    /\ WF_vars(InitLazy)

SpecLoader == InitLoader /\ [][NextLoader]_vars /\ FairnessLoader

(* ---------------------------------------------------------------------- *)
(* Properties of the editing session                                       *)
(* ---------------------------------------------------------------------- *)
Range(f) == {f[i] : i \in DOMAIN f}

Editable(e) == dom.contenteditable[e] = "true"

IsDirty(e) == \E i \in DOMAIN GetDirtyElements(World) : GetDirtyElements(World)[i].id = e

\* the closures of handleSave() calls that have not reported yet, and the one
\* that has just reported
InFlight == {k \in 1..Len(save) : save[k].status = "inflight"}
Reported == {k \in 1..Len(save) : save[k].status = "done"}

Requests(cl) == 1..Len(cl.entries)
Succeeded(cl) == {i \in Requests(cl) : cl.req[i] = "fulfilled"}
Failed(cl) == {i \in Requests(cl) : cl.req[i] = "rejected"}
SentIds(cl) == {cl.entries[i].id : i \in Requests(cl)}

\* C1: at most one registered element carries contenteditable="true", and an
\* element carries it exactly when editingElementId names it; in particular
\* after startEditing(id2) during an edit of id1, id1 no longer carries it.
C1_SingleEditTarget ==
    \A e \in Elems : Editable(e) <=> ctl.editingElementId = e

\* C1 witness: B is being edited after A was, and A has lost its affordance
C1_Witness ==
    /\ ctl.editingElementId = "B"
    /\ dom.contenteditable["A"] = "false"
    /\ ctl.originalContent["A"] # Null

\* C2 as claimed: when a save over N dirty elements reports, with M writes
\* succeeded, exactly M of its ids are non-dirty, exactly N-M are dirty and the
\* report has N-M entries.
C2_CountsAsClaimed ==
    \A k \in Reported :
        LET cl == save[k]
            n == Len(cl.entries)
            m == Cardinality(Succeeded(cl))
        IN  /\ Cardinality({e \in SentIds(cl) : ~IsDirty(e)}) = m
            /\ Cardinality({e \in SentIds(cl) : IsDirty(e)}) = n - m
            /\ Len(cl.errors) = n - m

\* C2 amended: when the save reports, the report has exactly N-M entries, and
\* of the ids whose live content is still the content that was sent, those whose
\* write succeeded are non-dirty and those whose write failed are dirty.
C2_Counts ==
    \A k \in Reported :
        LET cl == save[k]
        IN  /\ Len(cl.errors) = Len(cl.entries) - Cardinality(Succeeded(cl))
            /\ \A i \in Requests(cl) :
                   dom.content[cl.entries[i].id] = cl.entries[i].content =>
                       /\ i \in Succeeded(cl) => ~IsDirty(cl.entries[i].id)
                       /\ i \in Failed(cl) => IsDirty(cl.entries[i].id)

\* C2 witness: a save of two elements reports one success and one failure,
\* both elements still showing what was sent
C2_Witness ==
    \E k \in Reported :
        /\ Len(save[k].entries) = 2
        /\ Cardinality(Succeeded(save[k])) = 1
        /\ \A i \in Requests(save[k]) :
               dom.content[save[k].entries[i].id] = save[k].entries[i].content

\* C3: when a save reports, the snapshot of every id whose write succeeded is
\* the content sent for it and the snapshot of every id whose write failed is
\* what it was when the save started; and no step of a save changes any other
\* snapshot: a step of handleSave() changes a snapshot only for the request it
\* settles as succeeded, to the content sent.
C3_SnapshotsAtReport ==
    \A k \in Reported :
        \A i \in Requests(save[k]) :
            LET e == save[k].entries[i]
            IN  /\ i \in Succeeded(save[k]) => ctl.originalContent[e.id] = e.content
                /\ i \in Failed(save[k]) => ctl.originalContent[e.id] = save[k].before[e.id]

C3_SaveStepFrame ==
    save' # save =>
        \A id \in Elems :
            ctl'.originalContent[id] # ctl.originalContent[id] =>
                \E k \in 1..Len(save) : \E i \in Requests(save[k]) :
                    /\ save[k].entries[i].id = id
                    /\ save[k].req[i] = "fetching"
                    /\ Len(save') = Len(save)
                    /\ save'[k].req[i] = "fulfilled"
                    /\ ctl'.originalContent[id] = save[k].entries[i].content

C3_SnapshotFrame == []C3_SnapshotsAtReport /\ [][C3_SaveStepFrame]_vars

\* C3 witness: a save of two elements reports, the first write succeeded and the
\* second failed, and the user changed the first element again during the save
C3_Witness ==
    \E k \in Reported :
        /\ Len(save[k].entries) = 2
        /\ Succeeded(save[k]) = {1}
        /\ Failed(save[k]) = {2}
        /\ dom.content[save[k].entries[1].id] # save[k].entries[1].content

\* C4 (safety half): saving is true exactly while a handleSave() call has started
\* its requests and has not yet run its finally block, whatever the outcomes.
C4_SavingFlag ==
    ctl.saving <=> InFlight # {}

\* C4: saving is true from the start of a save until all its requests have
\* settled and false afterwards on every path; and, every request settling
\* eventually, a save that set the flag eventually clears it.
C4_SavingReleased == []C4_SavingFlag /\ (ctl.saving ~> ~ctl.saving)

\* C4 witness: a save all of whose requests failed has reported and released
\* the flag
C4_Witness ==
    /\ ~ctl.saving
    /\ \E k \in Reported : Failed(save[k]) = Requests(save[k])

\* C5: at most one batched save is in flight, and no element id has two
\* outstanding write requests.
C5_OneSaveInFlight ==
    /\ Cardinality(InFlight) <= 1
    /\ \A e \in Elems :
           Cardinality({<<k, i>> \in (1..Len(save)) \X (1..Len(ElemOrder)) :
                            /\ i \in Requests(save[k])
                            /\ save[k].entries[i].id = e
                            /\ save[k].req[i] = "fetching"}) <= 1

\* C5 witness: a save is in flight, the toolbar is there to raise another save
\* event and there is something dirty to save
C5_Witness ==
    /\ Ready
    /\ ctl.saving
    /\ ctl.toolbar # NoToolbar
    /\ Len(GetDirtyElements(World)) > 0
    /\ \E k \in InFlight : \E i \in Requests(save[k]) : save[k].req[i] = "fetching"

(* ---------------------------------------------------------------------- *)
(* Properties of the popup handshake                                       *)
(* ---------------------------------------------------------------------- *)
Opened(h) == h.kind # "none" /\ h.popup # "none"

Pending(h) == h.outcome = "pending"

\* no posted call that the channel would still hand to a method
NoResultComing(h) == \A i \in 1..Len(h.inbox) : ~Accepts(h, h.inbox[i])

\* C6 (step): a poll tick that finds the popup closed and the handshake
\* unresolved resolves it Cancelled, whatever the clock says.
C6_PollTickCancels ==
    (PollTick /\ hs.popup = "closed" /\ Pending(hs)) => hs'.outcome = Cancelled

\* C6: if the popup is closed before a result call arrives, the next poll tick
\* resolves the handshake Cancelled, and that tick comes, deadline or not.
C6_ClosedPopupCancels ==
    /\ [][C6_PollTickCancels]_vars
    /\ (hs.popup = "closed" /\ Pending(hs) /\ NoResultComing(hs))
           ~> (hs.outcome = Cancelled)

\* C6 witness: a media handshake cancelled by the poll before its deadline
C6_Witness ==
    /\ hs.kind = "media"
    /\ hs.popup = "closed"
    /\ hs.outcome = Cancelled
    /\ hs.cleanups = 1 /\ hs.deferred = 0
    /\ now < hs.deadline

\* C7 as claimed: a handshake whose popup was opened is never unresolved once
\* its deadline (5 minutes for login, 10 for media) has passed.
C7_ResolvedByDeadline ==
    (Opened(hs) /\ now > hs.deadline) => ~Pending(hs)

\* C8 as claimed: after any terminal outcome of a handshake whose popup was
\* opened (a result, a cancel call, the popup found closed, or the deadline),
\* the poll timer is eventually cleared and the channel eventually destroyed.
C8_Terminal ==
    Opened(hs) /\ (~Pending(hs) \/ (now >= hs.deadline /\ ~hs.timer /\ hs.conn = "destroyed"))

C8_TornDownAfterTerminal ==
    C8_Terminal ~> (hs.kind = "none" \/ (~hs.poll /\ hs.conn = "destroyed"))

\* C9 as claimed: within one handshake cleanup() runs exactly once: never twice,
\* and once by the time the handshake is over.
C9_TeardownOnce ==
    /\ hs.cleanups <= 1
    /\ (Opened(hs) /\ Finished(hs)) => hs.cleanups = 1

\* C10: in the state in which the caller of the login handshake is about to
\* observe a resolved key, getStoredKey() returns that key.
C10_StoredBeforeResolved ==
    (hs.kind = "login" /\ ~hs.observed /\ hs.outcome \in PopupKeys) =>
        GetStoredKey(ls, now) = hs.outcome

\* C10 witness: handleSignIn() is about to resume with the key of the popup
C10_Witness ==
    /\ hs.kind = "login"
    /\ hs.caller = "handleSignIn"
    /\ ~hs.observed
    /\ hs.outcome \in PopupKeys
    /\ ctl.apiKey = Null

\* the message event of a call posted from an origin other than the appUrl's
ForgedDelivery ==
    /\ Len(hs.inbox) > 0
    /\ Head(hs.inbox).origin # AppOrigin
    /\ hs'.kind = hs.kind
    /\ hs'.inbox = Tail(hs.inbox)

\* C11: a call posted from an origin other than the origin of appUrl never
\* reaches a method of the parent: its delivery only takes it off the queue; it
\* does not resolve the handshake, tear it down or write the Credential Store.
C11_ForgedCallDropped ==
    [][ForgedDelivery =>
           /\ hs' = [hs EXCEPT !.inbox = Tail(@)]
           /\ ls' = ls
           /\ ctl' = ctl]_vars

\* C11 witness: on a live connection of an open popup a call has been
\* delivered and the handshake is still unresolved: the call was a forged one
C11_Witness ==
    /\ hs.popup = "open"
    /\ hs.conn = "connected"
    /\ hs.calls > 0
    /\ Len(hs.inbox) = 0
    /\ Pending(hs)

(* ---------------------------------------------------------------------- *)
(* Properties of the Credential Store                                      *)
(* ---------------------------------------------------------------------- *)
\* C12 as claimed: getStoredKey() returns the stored key if and only if the
\* record's appId is the active one and its expiry is strictly greater than the
\* current time, and absent in every other case, expiry = now included.
C12_ValidIffStrictlyUnexpired ==
    GetStoredKey(ls, now) =
        IF ls.auth # NoItem /\ ls.auth.appId = AppId /\ ls.auth.expiresAt > now
        THEN ls.auth.key
        ELSE Null

\* the read of the Credential Store that init() makes, reporting absent
ReadReportsAbsent ==
    /\ phase = "constructed" /\ phase' = "ready"
    /\ ~config.mockAuth
    /\ ls.auth # NoItem
    /\ ctl'.apiKey = Null

\* C13 as claimed: a read that finds a record and reports absent (the record is
\* expired or belongs to another application) leaves no credential record stored.
C13_PurgedOnRead ==
    [][ReadReportsAbsent => ls'.auth = NoItem]_vars

(* ---------------------------------------------------------------------- *)
(* Properties of the session state                                         *)
(* ---------------------------------------------------------------------- *)
\* a step of signOut(): the only one that drops the in-memory credential
SignOutStep == ctl.apiKey # Null /\ ctl'.apiKey = Null

\* C14 as claimed: after sign-out, from any session state, the session state is
\* {mode: viewer, editingId: null, saving: false}, the in-memory credential is
\* absent and the stored credential is removed.
C14_SignedOutState ==
    [][SignOutStep =>
           /\ ctl'.currentMode = "viewer"
           /\ ctl'.editingElementId = Null
           /\ ~ctl'.saving
           /\ ctl'.apiKey = Null
           /\ ls'.auth = NoItem]_vars

\* C15 (state): editingElementId is non-null only while the mode is author; so
\* a click on an element in viewer mode, which leaves the mode alone, starts no edit.
C15_EditingOnlyInAuthor ==
    ctl.editingElementId # Null => ctl.currentMode = "author"

\* C15 (step): a step from author mode into viewer mode leaves no element
\* editable and editingElementId null.
C15_EnterViewerStep ==
    (ctl.currentMode = "author" /\ ctl'.currentMode = "viewer") =>
        /\ ctl'.editingElementId = Null
        /\ \A e \in Elems : dom'.contenteditable[e] # "true"

\* C15: editingElementId is non-null only in author mode; entering viewer mode
\* from an edit of id removes id's edit affordance and sets editingElementId to
\* null; a click on an element in viewer mode never starts an edit.
C15_EditOnlyAsAuthor ==
    []C15_EditingOnlyInAuthor /\ [][C15_EnterViewerStep]_vars

\* C15 witness: viewer mode was entered during an edit (stopEditing() left
\* contenteditable="false" on the element) and the click listeners are installed
C15_Witness ==
    /\ Ready
    /\ ctl.currentMode = "viewer"
    /\ dom.clickHandler
    /\ \E e \in Elems : dom.contenteditable[e] = "false"

\* C16 as claimed: every entry of the error report of a save has the form
\* "<id>: <statusOrMessage>", <id> being the id of an element whose write
\* failed, and every failed write has such an entry.
C16_ErrorEntryForm ==
    \A k \in Reported :
        LET cl == save[k]
        IN  /\ Len(cl.errors) = Cardinality(Failed(cl))
            /\ \A j \in 1..Len(cl.errors) :
                   /\ Len(cl.errors[j]) = 3
                   /\ cl.errors[j][2] = ": "
                   /\ \E i \in Failed(cl) : cl.errors[j][1] = cl.entries[i].id
            /\ \A i \in Failed(cl) :
                   \E j \in 1..Len(cl.errors) :
                       Len(cl.errors[j]) = 3 /\ cl.errors[j][1] = cl.entries[i].id

(* ---------------------------------------------------------------------- *)
(* Properties of the completion of a save and of the snapshots             *)
(* ---------------------------------------------------------------------- *)
\* the step in which handleSave() call k resumes after Promise.allSettled
Completion(k) ==
    /\ k \in 1..Len(save)
    /\ save[k].status = "inflight"
    /\ Len(save') = Len(save)
    /\ save'[k].status = "done"

\* C17: the step that completes a save with an empty error report sets
\* editingElementId to null; the step that completes it with at least one error,
\* like every other step of the save, leaves editingElementId unchanged.
C17_SaveStep ==
    save' # save =>
        IF \E k \in 1..Len(save) : Completion(k) /\ Len(save'[k].errors) = 0
        THEN ctl'.editingElementId = Null
        ELSE ctl'.editingElementId = ctl.editingElementId

C17_DeselectOnlyOnSuccess == [][C17_SaveStep]_vars

\* C17 witness: a save has completed with an error and the element is still
\* being edited
C17_Witness ==
    /\ ctl.editingElementId # Null
    /\ \E k \in Reported : Len(save[k].errors) > 0

C19_SnapshotStep ==
    save' = save =>
        /\ ctl'.originalContent # ctl.originalContent =>
               LET id == ctl'.editingElementId
               IN  /\ id \in Elems
                   /\ ctl.originalContent[id] = Null
                   /\ ctl'.originalContent =
                          [ctl.originalContent EXCEPT ![id] = dom.content[id]]
        /\ \A id \in Elems :
               (ctl'.editingElementId = id /\ ctl.editingElementId # id
                    /\ ctl.originalContent[id] = Null) =>
                   ctl'.originalContent[id] = dom.content[id]

C19_SnapshotCapturedOnce == [][C19_SnapshotStep]_vars

\* C19 witness: A is being edited again after a save of A alone succeeded (which
\* deselected it and made the saved content its snapshot), and A's content has
\* since been changed: the re-entry kept the snapshot
C19_Witness ==
    /\ ctl.editingElementId = "A"
    /\ ctl.originalContent["A"] = "c1"
    /\ ctl.originalContent["B"] = Null
    /\ dom.content["A"] = "c0"

\* C20: an element is in the dirty set exactly when it has a snapshot and its
\* live content is another string than the snapshot; the dirty set records the
\* live content; an element without snapshot is never in it.
C20_DirtyIff ==
    /\ \A e \in Elems :
           IsDirty(e) <=> /\ ctl.originalContent[e] # Null
                          /\ dom.content[e] # ctl.originalContent[e]
    /\ \A i \in DOMAIN GetDirtyElements(World) :
           GetDirtyElements(World)[i].content =
               dom.content[GetDirtyElements(World)[i].id]

\* C20 witness: A has a snapshot and differs from it, B has no snapshot
C20_Witness ==
    /\ IsDirty("A")
    /\ ctl.originalContent["B"] = Null
    /\ ~IsDirty("B")

(* ---------------------------------------------------------------------- *)
(* Properties of reset, of a no-op edit and of the document click          *)
(* ---------------------------------------------------------------------- *)
\* whether element e is dirty in world w
DirtyIn(w, e) ==
    /\ w.ctl.originalContent[e] # Null
    /\ w.dom.content[e] # w.ctl.originalContent[e]

\* C21 (step): the toolbar's reset during an edit of id makes id's content
\* equal to its snapshot, so that id is not dirty, and changes neither
\* editingElementId, nor a snapshot, nor the content of another element.
C21_ResetStep ==
    (ToolbarReset /\ ctl.editingElementId # Null) =>
        LET id == ctl.editingElementId
        IN  /\ dom'.content = [dom.content EXCEPT ![id] = ctl.originalContent[id]]
            /\ ~(ctl'.originalContent[id] # Null
                   /\ dom'.content[id] # ctl'.originalContent[id])
            /\ ctl'.editingElementId = id
            /\ ctl'.originalContent = ctl.originalContent

\* C21: reset() during an edit, after any content mutation, restores the
\* snapshot's content and leaves the edit and the snapshots alone; with no
\* element being edited reset() changes nothing.
C21_ResetRestores ==
    /\ [](ctl.editingElementId = Null => HandleReset(World) = World)
    /\ [][C21_ResetStep]_vars

\* C21 witness: A is being edited and differs from its snapshot, B differs
\* from its own, and the toolbar is there to raise the reset event
C21_Witness ==
    /\ Ready
    /\ ctl.toolbar # NoToolbar
    /\ ctl.editingElementId = "A"
    /\ DirtyIn(World, "A")
    /\ DirtyIn(World, "B")

\* C22: for an id that is not dirty, startEditing(id) followed at once by
\* stopEditing() leaves id not dirty, its content as it was, and its snapshot
\* as startEditing(id) found it (or, if there was none, as it captured it).
C22_NoOpEdit ==
    \A id \in Elems :
        LET w1 == StartEditing(World, id)
            w2 == StopEditing(w1)
        IN  ~DirtyIn(World, id) =>
                /\ ~DirtyIn(w2, id)
                /\ w2.dom.content = dom.content
                /\ w2.ctl.originalContent = w1.ctl.originalContent
                /\ ctl.originalContent[id] # Null =>
                       w2.ctl.originalContent = ctl.originalContent
                /\ w2.ctl.originalContent[id] = dom.content[id]
                /\ w2.ctl.editingElementId = Null

\* C22 witness: B was entered and left, nothing was typed in it, and A, entered
\* before, is dirty
C22_Witness ==
    /\ ctl.editingElementId = Null
    /\ dom.contenteditable["B"] = "false"
    /\ ctl.originalContent["B"] = "c0" /\ dom.content["B"] = "c0"
    /\ DirtyIn(World, "A")

\* C23 (function): during an edit the document's click listener sets
\* editingElementId to null exactly for a target outside every registered
\* element and outside the toolbar.
C23_DocumentClickTargets ==
    ctl.editingElementId # Null =>
        \A target \in ClickTargets :
            HandleDocumentClick(World, target).ctl.editingElementId = Null
                <=> (target \notin Elems /\ ~(target = "toolbar" /\ ctl.toolbar # NoToolbar))

\* C23 (step): a click outside stops the edit; a click inside the toolbar or
\* inside a registered element never sets editingElementId to null.
C23_ClickStep ==
    /\ (ClickOutside /\ ctl.editingElementId # Null) => ctl'.editingElementId = Null
    /\ ((ClickToolbar \/ \E id \in Elems : ClickElement(id))
            /\ ctl.editingElementId # Null) => ctl'.editingElementId # Null

C24_UnknownIdIgnored ==
    /\ UnknownId \notin Elems
    /\ StartEditing(World, UnknownId) = World

\* C24 witness: an element is being edited, it carries the edit affordance and
\* the toolbar shows it as the active element
C24_Witness ==
    /\ Ready
    /\ ctl.editingElementId = "A"
    /\ dom.contenteditable["A"] = "true"
    /\ ctl.toolbar # NoToolbar
    /\ ctl.toolbar.activeElement = "A"
    /\ ctl.originalContent["A"] # Null

(* ---------------------------------------------------------------------- *)
(* Properties of a cancelled handshake                                     *)
(* ---------------------------------------------------------------------- *)
\* a handshake whose popup the browser refused to open
Blocked(h) == h.kind # "none" /\ h.popup = "none"

\* C25 (state): a blocked handshake is resolved Cancelled, has no channel, no
\* poll timer and no connection timer, and nothing of it was ever torn down.
C25_BlockedResolved ==
    Blocked(hs) =>
        /\ hs.outcome = Cancelled
        /\ hs.conn = "none"
        /\ ~hs.poll /\ ~hs.timer
        /\ hs.deferred = 0 /\ hs.cleanups = 0

\* C25 (step): no step of a handshake changes the controller or localStorage,
\* other than the delivery of a key and the caller's continuation with that
\* key; so from the sign-in attempt to the continuation of a Cancelled outcome
\* mode, credentials, editingElementId and the toolbar are left as they were.
C25_CancelledStep ==
    (hs' # hs /\ hs'.outcome \notin PopupKeys) =>
        /\ ctl' = ctl
        /\ ls' = ls
        /\ dom' = dom

\* C25: a blocked popup resolves the handshake Cancelled at once, with no
\* channel and no poll timer, and a Cancelled outcome, blocked or closed, leaves
\* the caller's session state unchanged.
C25_CancelledChangesNothing ==
    []C25_BlockedResolved /\ [][C25_CancelledStep]_vars

\* C25 witness: handleSignIn() has resumed from a blocked login popup
C25_Witness ==
    /\ hs.kind = "login"
    /\ Blocked(hs)
    /\ hs.caller = "handleSignIn"
    /\ hs.observed
    /\ ctl.apiKey = Null
    /\ ctl.toolbar = NoToolbar

(* ---------------------------------------------------------------------- *)
(* Properties of the page load                                             *)
(* ---------------------------------------------------------------------- *)
\* C26 as claimed: whatever the outcome of the content fetch, the loader
\* eventually removes the hiding style and injects the lazy module; and once it
\* is done with a failed fetch the elements show their default content.
C26_PageRevealed ==
    /\ <>(~loader.hidden /\ loader.module)
    /\ []((loader.pc = "done" /\ loader.result = NoContent) =>
              dom.content = [e \in Elems |-> "c0"])

(* ---------------------------------------------------------------------- *)
(* Properties of the setup of the session                                  *)
(* ---------------------------------------------------------------------- *)
\* a stored credential that is valid at time t: of the active application and
\* with an expiry strictly after t
ValidStored(l, t) ==
    /\ l.auth # NoItem
    /\ l.auth.appId = AppId
    /\ l.auth.expiresAt > t

\* the step of init() without mock authentication
SetupStep == phase = "constructed" /\ phase' = "ready" /\ ~config.mockAuth

\* C27 as claimed (step): the session enters author mode only with a
\* credential in memory; a credential comes into memory only from a valid stored
\* credential at setup, from mock authentication or from a login handshake
\* resolved with a key; and setup with no valid stored credential and no mock
\* authentication ends in viewer mode without toolbar.
C27_GatedStep ==
    /\ (ctl.currentMode # "author" /\ ctl'.currentMode = "author") =>
           ctl'.apiKey # Null
    /\ (ctl'.apiKey # ctl.apiKey /\ ctl'.apiKey # Null) =>
           \/ /\ phase = "constructed" /\ config.mockAuth
              /\ ctl'.apiKey = MockKey
           \/ /\ SetupStep /\ ValidStored(ls, now)
              /\ ctl'.apiKey = ls.auth.key
           \/ /\ phase = "ready" /\ hs.kind = "login" /\ hs.outcome \in PopupKeys
              /\ ctl'.apiKey = hs.outcome
    /\ (SetupStep /\ ~ValidStored(ls, now)) =>
           /\ ctl'.currentMode = "viewer"
           /\ ctl'.toolbar = NoToolbar

C27_CredentialGatesAuthor == [][C27_GatedStep]_vars

\* C28: setup with a valid stored credential enters author mode if and only if
\* the stored mode preference is one of the active application and says author;
\* with no preference, one of another application or a viewer preference it
\* enters viewer mode.
C28_SetupStep ==
    (SetupStep /\ ValidStored(ls, now)) =>
        /\ ctl'.currentMode \in {"author", "viewer"}
        /\ ctl'.currentMode = "author" <=>
               /\ ls.mode # NoItem
               /\ ls.mode.appId = AppId
               /\ ls.mode.mode = "author"

C28_InitialModeFromPreference == [][C28_SetupStep]_vars

\* C28 witness: setup with a stored credential has ended in viewer mode with a
\* toolbar, no handshake having taken place
C28_Witness ==
    /\ phase = "ready"
    /\ ~config.mockAuth
    /\ ctl.apiKey \in PopupKeys
    /\ ctl.currentMode = "viewer"
    /\ ctl.toolbar # NoToolbar
    /\ ctl.toolbar.mode = "viewer"
    /\ ls.auth # NoItem /\ ls.auth.expiresAt < KEY_EXPIRY_MS

(* ---------------------------------------------------------------------- *)
(* Properties of a retry and of the toolbar's change indicator             *)
(* ---------------------------------------------------------------------- *)
\* no content differs from what it was when the save of closure cl was raised:
\* the elements it sent show what was sent and no other element is dirty
Unmutated(cl) ==
    /\ \A i \in Requests(cl) : dom.content[cl.entries[i].id] = cl.entries[i].content
    /\ \A e \in Elems \ SentIds(cl) : ~DirtyIn(World, e)

\* C29: when a save has completed with some writes succeeded and some failed,
\* and no content was mutated since that save was raised, a save raised next is
\* not refused and sends exactly the failed ids, with the same contents, and
\* none of the succeeded ids.
C29_RetrySendsFailed ==
    \A k \in Reported :
        LET cl == save[k]
            next == NewClosure(World, GetDirtyElements(World))
        IN  (Succeeded(cl) # {} /\ Failed(cl) # {} /\ Unmutated(cl)) =>
                /\ ~SaveBlocked(World, GetDirtyElements(World))
                /\ Range(next.entries) = {cl.entries[i] : i \in Failed(cl)}
                /\ Len(next.entries) = Cardinality(Failed(cl))

\* C29 witness: a save of A and B has completed, A's write failed and B's
\* succeeded, both still show what was sent and the toolbar is there
C29_Witness ==
    /\ ctl.toolbar # NoToolbar
    /\ \E k \in Reported :
           /\ Len(save[k].entries) = 2
           /\ Failed(save[k]) = {1}
           /\ Succeeded(save[k]) = {2}
           /\ Unmutated(save[k])

\* C30 as claimed: whenever a toolbar exists and neither a save nor a
\* continuation is in progress, its hasChanges property says whether the dirty
\* set is non-empty.
C30_HasChangesInSync ==
    (Ready /\ ctl.toolbar # NoToolbar /\ ~ctl.saving) =>
        ctl.toolbar.hasChanges = (Len(GetDirtyElements(World)) > 0)

(* ---------------------------------------------------------------------- *)
(* One outcome per handshake                                               *)
(* ---------------------------------------------------------------------- *)
\* a step of the handshake that is under way (not its start, not its end)
SameHandshake == hs.kind # "none" /\ hs'.kind = hs.kind

\* the message event of the oldest posted call, genuine and from the popup
LateResultCall ==
    /\ SameHandshake
    /\ ~Pending(hs)
    /\ Len(hs.inbox) > 0
    /\ Head(hs.inbox).origin = AppOrigin
    /\ hs'.inbox = Tail(hs.inbox)

\* C31 (step): the outcome of a started handshake, once set, is never changed by
\* a later step of that handshake; a result call handled after the outcome is
\* set leaves the credential store as it is; and a poll tick that finds the popup
\* closed after a result has resolved the handshake leaves the result in place.
C31_OutcomeFixed ==
    /\ (SameHandshake /\ ~Pending(hs)) => hs'.outcome = hs.outcome
    /\ LateResultCall => (hs'.outcome = hs.outcome /\ ls' = ls)
    /\ (hs.outcome = Cancelled /\ SameHandshake) => ls'.auth \in {ls.auth, NoItem}

\* C31: a handshake yields one outcome, fixed by the first terminal event.
C31_OneOutcome == [][C31_OutcomeFixed]_vars

\* C31 witness: a cancel call has resolved a media handshake Cancelled, and a
\* selection call of the popup is handled next, on the connection that is still up
C31_Witness ==
    /\ hs.kind = "media"
    /\ hs.outcome = Cancelled
    /\ hs.observed
    /\ hs.conn = "connected"
    /\ hs.deferred = 1
    /\ hs.inbox = <<[method |-> "receiveMediaSelection", arg |-> File, origin |-> AppOrigin]>>

\* C31 witness of the other order: a selection resolved the handshake, the popup
\* closed, and the poll found it closed before the deferred teardown ran
C31_ResultThenClosed ==
    /\ hs.kind = "media"
    /\ hs.outcome = File
    /\ hs.popup = "closed"
    /\ ~hs.poll
    /\ hs.deferred = 1

(* ---------------------------------------------------------------------- *)
(* The requests of a batched save and the order of their completion        *)
(* ---------------------------------------------------------------------- *)
\* the j-th request of cl, in request order, that was rejected
NthFailed(cl, j) ==
    CHOOSE i \in Failed(cl) : Cardinality({x \in Failed(cl) : x < i}) = j - 1

\* C32: whatever the order in which the requests of a save complete, nothing is
\* reported while a request is unsettled, and the report is a function of the
\* dirty set and the outcome of each request alone: the saved ids are the ids of
\* the requests that succeeded, the error entries are the messages of the
\* requests that failed, in request order, and the snapshot of each id sent is
\* the content sent if its request succeeded and what it was before otherwise.
C32_OrderIndependent ==
    \A k \in 1..Len(save) :
        LET cl == save[k]
        IN  /\ cl.status = "inflight" => cl.errors = << >>
            /\ cl.status = "done" =>
                /\ \A i \in Requests(cl) : cl.req[i] \in {"fulfilled", "rejected"}
                /\ Range(cl.saved) = {cl.entries[i].id : i \in Succeeded(cl)}
                /\ Len(cl.saved) = Cardinality(Succeeded(cl))
                /\ Len(cl.errors) = Cardinality(Failed(cl))
                /\ \A j \in 1..Len(cl.errors) : cl.errors[j] = cl.reason[NthFailed(cl, j)]
                /\ \A i \in Requests(cl) :
                       ctl.originalContent[cl.entries[i].id] =
                           IF i \in Succeeded(cl) THEN cl.entries[i].content
                           ELSE cl.before[cl.entries[i].id]

\* C32 witness: a save of two elements has reported, and its second request
\* completed before its first
C32_Witness ==
    \E k \in Reported :
        /\ Len(save[k].entries) = 2
        /\ save[k].saved = <<save[k].entries[2].id, save[k].entries[1].id>>

\* C32 witness of a report of two failures whose second request was settled first
C32_TwoFailures ==
    \E k \in Reported :
        /\ Len(save[k].entries) = 2
        /\ Failed(save[k]) = {1, 2}
        /\ save[k].errors = <<save[k].reason[1], save[k].reason[2]>>
        /\ save[k].reason[1] # save[k].reason[2]

\* the place of an id in the iteration order of editableElements
PlaceOf(e) == CHOOSE i \in 1..Len(ElemOrder) : ElemOrder[i] = e

\* C33 (step): the step that starts a save has called fetch() once for every
\* dirty id and for no other id, with method PUT, the URL
\* {apiUrl}/apps/{appId}/content/{id} and the element's content of that moment as
\* body content, in the iteration order of the elements, and no response of the
\* save has been processed when the step ends.
C33_StartStep ==
    Len(save') = Len(save) + 1 =>
        LET cl == save'[Len(save')]
            dirty == {e \in Elems : DirtyIn(World, e)}
        IN  /\ Len(cl.sent) = Cardinality(dirty)
            /\ \A e \in dirty :
                   \E i \in 1..Len(cl.sent) :
                       /\ cl.sent[i].method = "PUT"
                       /\ cl.sent[i].url = <<ApiUrl, "/apps/", AppId, "/content/", e>>
                       /\ cl.sent[i].body = [content |-> dom.content[e]]
            /\ \A i, j \in 1..Len(cl.sent) :
                   i < j => PlaceOf(cl.sent[i].url[5]) < PlaceOf(cl.sent[j].url[5])
            /\ \A i \in 1..Len(cl.sent) : cl.req[i] = "fetching"
            /\ cl.saved = << >>

C34_EditDuringSave ==
    \A k \in Reported :
        \A i \in Succeeded(save[k]) :
            LET e == save[k].entries[i]
            IN  dom.content[e.id] # e.content =>
                    /\ ctl.originalContent[e.id] = e.content
                    /\ ctl.originalContent[e.id] # dom.content[e.id]
                    /\ \E j \in 1..Len(GetDirtyElements(World)) :
                           GetDirtyElements(World)[j] =
                               [id |-> e.id, content |-> dom.content[e.id]]

\* C34 witness: a save whose only write succeeded reports without error after
\* the user typed into the element during the save
C34_Witness ==
    \E k \in Reported :
        /\ Len(save[k].entries) = 1
        /\ Succeeded(save[k]) = {1}
        /\ save[k].errors = << >>
        /\ dom.content[save[k].entries[1].id] # save[k].entries[1].content
        /\ ctl.editingElementId = Null

\* C35 as claimed: while the controller holds no credential (before the first
\* sign-in, and from a sign-out to the next successful sign-in) no element is in
\* edit state: editingElementId is null and no element is contenteditable.
C35_NoEditWhileSignedOut ==
    (phase = "ready" /\ ctl.apiKey = Null) =>
        /\ ctl.editingElementId = Null
        /\ \A e \in Elems : ~Editable(e)

\* C36 (step): the completion of a save that finds the user signed out (no
\* record in the credential store, no credential in memory) leaves both absent.
C36_CompletionSignedOut ==
    \A k \in 1..Len(save) :
        (Completion(k) /\ ls.auth = NoItem /\ ctl.apiKey = Null) =>
            (ls'.auth = NoItem /\ ctl'.apiKey = Null)

\* C36: a sign-out during a save is not undone by the completion of the save;
\* and while the user stays signed out after it, no later step of a save, its
\* requests settling included, stores a credential or sets the one in memory.
C36_NoCredentialRestored ==
    /\ [][C36_CompletionSignedOut]_vars
    /\ [][(save' # save /\ ls.auth = NoItem /\ ctl.apiKey = Null)
              => (ls'.auth = NoItem /\ ctl'.apiKey = Null)]_vars

\* C36 witness: a save that was started with a credential has completed after
\* the user signed out, and no credential is stored or held
C36_Witness ==
    \E k \in Reported :
        /\ save[k].bearer # Null
        /\ ctl.apiKey = Null
        /\ ls.auth = NoItem
        /\ hs.kind = "none"

(* ---------------------------------------------------------------------- *)
(* Properties of the HTML editor modal                                     *)
(* ---------------------------------------------------------------------- *)
\* a step that closes the modal: its apply or its cancel
ModalCloses == ctl.htmlEditorModal # NoModal /\ ctl'.htmlEditorModal = NoModal

\* C37 (step) as claimed: the step that closes the modal changes the content of
\* no element but the one that is being edited when the step is taken.
C37_ApplyStep ==
    ModalCloses =>
        \A e \in Elems :
            dom'.content[e] # dom.content[e] => e = ctl.editingElementId

\* C37 as claimed: at most one HTML editor modal is open at a time, and an apply
\* mutates only the element that is being edited at the moment of the apply: once
\* that edit has stopped or moved, an apply changes no element's content.
C37_ApplyOnlyEdited ==
    /\ [](dom.htmlEditorModals <= 1)
    /\ [][C37_ApplyStep]_vars

\* the modal is open, the edit it was opened for was stopped by the completion
\* of a save, and nothing is being edited
C37_StaleModalAfterSave ==
    /\ ctl.htmlEditorModal # NoModal
    /\ ctl.editingElementId = Null
    /\ ctl.apiKey # Null
    /\ ctl.currentMode = "author"
    /\ Reported # {}

(* ---------------------------------------------------------------------- *)
(* Isolation of the stored records per application id                      *)
(* ---------------------------------------------------------------------- *)
\* a step that stores a credential, or a mode preference, for another application
WritesOtherKey ==
    ls'.auth # ls.auth /\ ls'.auth # NoItem /\ ls'.auth.appId = OtherAppId

WritesOtherMode ==
    ls'.mode # ls.mode /\ ls'.mode # NoItem /\ ls'.mode.appId = OtherAppId

\* C38 (step) as claimed: a step that stores a credential or a mode preference
\* for another application id leaves what this application reads unchanged: a
\* credential of this application that is still valid is still returned, and its
\* mode preference is still returned.
C38_WriteStep ==
    /\ WritesOtherKey =>
           (ValidStored(ls, now) => (ValidStored(ls', now) /\ ls'.auth.key = ls.auth.key))
    /\ WritesOtherMode =>
           ((ls.mode # NoItem /\ ls.mode.appId = AppId) => ls'.mode = ls.mode)

\* C38 as claimed: writes for application id B never make a still-valid
\* credential or a preference stored for application id A unreadable by A.
C38_WritesIsolated == [][C38_WriteStep]_vars

(* ---------------------------------------------------------------------- *)
(* The credential a save sends and the credential store                    *)
(* ---------------------------------------------------------------------- *)
\* C39 (step) as claimed: the step that starts a save gives its requests a
\* bearer credential only if getStoredKey(), called at that moment, would return
\* that credential.
C39_StartStep ==
    Len(save') = Len(save) + 1 =>
        LET cl == save'[Len(save')]
        IN  cl.bearer # Null => GetStoredKey(ls, now) = cl.bearer

\* C39 as claimed: a write request carries a bearer credential only if the
\* credential store would return that credential as valid when the save starts;
\* a credential that has expired in the store or was removed from it is never sent.
C39_BearerValidInStore == [][C39_StartStep]_vars

\* C40 (step) as claimed: refreshKeyExpiry(), which runs in the step that
\* completes a save, stores nothing if the store holds no valid credential of
\* the active application (none, one that is not strictly unexpired, one of
\* another application): the record is left as it is or removed; and if the store
\* holds a valid one, the record keeps its key and application id and its expiry
\* does not move back.
C40_RefreshStep ==
    \A k \in 1..Len(save) :
        Completion(k) =>
            IF ValidStored(ls, now)
            THEN /\ ls'.auth # NoItem
                 /\ ls'.auth.key = ls.auth.key
                 /\ ls'.auth.appId = ls.auth.appId
                 /\ ls'.auth.expiresAt >= ls.auth.expiresAt
            ELSE ls'.auth \in {ls.auth, NoItem}

\* C40 as claimed: refreshKeyExpiry() never creates or revives a credential.
C40_NeverRevives == [][C40_RefreshStep]_vars

====
